---- MODULE Spec2Model ----
(***************************************************************************)
(* Text extraction of pypdf (pypdf/_text_extraction/__init__.py): the      *)
(* matrix algebra, the orientation classifier, the text state and its      *)
(* snapshots, the custom right-to-left configuration, the line/space       *)
(* heuristic crlf_space_check and the decode and bidi engine handle_tj.    *)
(*                                                                         *)
(* A character is its code point, a str is a sequence of code points, a    *)
(* bytes value is a sequence of byte values.  Matrices, font sizes and     *)
(* space widths are integers; the comparisons against 0.8*f, 0.3*f and     *)
(* space_width*f*15 are made exactly, after multiplying both sides by 10   *)
(* or by 1000.                                                             *)
(***************************************************************************)
EXTENDS Integers, Sequences, FiniteSets, TLC

VARIABLES
    CUSTOM_RTL_MIN,            \* module global, line 13
    CUSTOM_RTL_MAX,            \* module global, line 14
    CUSTOM_RTL_SPECIAL_CHARS,  \* module global, line 15
    heap,          \* the TextState objects: heap[1] is the live st, the others are copies
    text,          \* the pending text the caller holds
    output,        \* the output string the caller holds
    cmtm_prev,     \* the (cm_prev, tm_prev) pair the caller holds
    orientations,  \* the accepted orientations of this extraction
    visitor_text,  \* the visitor of this extraction: "none", "record" or "raise"
    visits,        \* the calls the visitor has received, in order
    last,          \* the last call: its name, its arguments on entry, its outcome
    calls          \* the number of calls made so far

vars == <<CUSTOM_RTL_MIN, CUSTOM_RTL_MAX, CUSTOM_RTL_SPECIAL_CHARS, heap, text,
          output, cmtm_prev, orientations, visitor_text, visits, last, calls>>

----------------------------------------------------------------------------
(* Bounds of the model. *)

\* The number of calls (set_custom_rtl, crlf_space_check, handle_tj) of one behaviour.
MaxCalls == 2

----------------------------------------------------------------------------
(* Values. *)

NL == <<10>>      \* "\n"
SP == <<32>>      \* " "
ALEF == <<1488>>  \* U+05D0, HEBREW LETTER ALEF, as a one-character str

Abs(x) == IF x < 0 THEN -x ELSE x

\* math.sqrt on the values the model's matrices give (perfect squares).
Sqrt(n) == CHOOSE r \in 0..n : r * r = n

Last(s) == s[Len(s)]

RECURSIVE Concat_reversed(_)
Concat_reversed(parts) ==
    IF parts = <<>> THEN <<>> ELSE Concat_reversed(Tail(parts)) \o Head(parts)

RECURSIVE Concat(_)
\* "".join(parts)
Concat(parts) ==
    IF parts = <<>> THEN <<>> ELSE Head(parts) \o Concat(Tail(parts))

----------------------------------------------------------------------------
(* Matrix algebra and the orientation classifier. *)

Identity == <<1, 0, 0, 1, 0, 0>>

mult_drops_translation(m, n) ==
    << m[1] * n[1] + m[2] * n[3],
       m[1] * n[2] + m[2] * n[4],
       m[3] * n[1] + m[4] * n[3],
       m[3] * n[2] + m[4] * n[4],
       m[5] * n[1] + m[6] * n[3],
       m[5] * n[2] + m[6] * n[4] >>

mult(m, n) ==
    << m[1] * n[1] + m[2] * n[3],
       m[1] * n[2] + m[2] * n[4],
       m[3] * n[1] + m[4] * n[3],
       m[3] * n[2] + m[4] * n[4],
       m[5] * n[1] + m[6] * n[3] + n[5],
       m[5] * n[2] + m[6] * n[4] + n[6] >>

\* The source compares m[3] with 1e-6; on integers that is m[3] > 0 and m[3] < 0.
orient_d_only(m) ==
    IF m[4] < 0 THEN 180 ELSE 0

orient(m) ==
    IF m[4] > 0 THEN 0
    ELSE IF m[4] < 0 THEN 180
    ELSE IF m[2] > 0 THEN 90
    ELSE 270

----------------------------------------------------------------------------
(* Character maps: immutable values, named by the text state. *)

\* CharMap.encoding is a str (kind "str", a codec name) or a dict from byte
\* to str (kind "dict", table); CharMap.map_dict substitutes decoded characters.
CharMaps ==
    [ latin |-> [ encoding |-> [kind |-> "str", name |-> "charmap", table |-> <<>>],
                  map_dict |-> (208 :> ALEF) ],                  \* U+00D0 -> U+05D0
      utf16 |-> [ encoding |-> [kind |-> "str", name |-> "utf-16-be", table |-> <<>>],
                  map_dict |-> (65 :> <<102, 105>>) ],           \* "A" -> "fi"
      sparse |-> [ encoding |-> [kind |-> "dict", name |-> "",
                                 table |-> (65 :> <<65>>) @@ (208 :> ALEF)],
                   map_dict |-> <<>> ] ]

CharMapNames == DOMAIN CharMaps

----------------------------------------------------------------------------
(* Text state. *)

TextState(cm, tm, charmap, fs, sw) ==
    [ cm_matrix |-> cm, tm_matrix |-> tm, cmap |-> charmap, font_size |-> fs,
      char_scale |-> 1, space_scale |-> 1, raw_space_width |-> sw,
      text_leading |-> 0, text_offset |-> 0, rtl_dir |-> FALSE ]

\* TextState.copy: copy.copy makes a new object with the same field values.
\* A reference to it is its index in the heap.
copyAliased(h, ref) == [heap |-> h, ref |-> ref]
copy(h, ref) == [heap |-> Append(h, h[ref]), ref |-> Len(h) + 1]

\* The visitor receives (fragment, snapshot); `at` is the snapshot's value
\* at delivery.
Visit(h, frag, ref) == [text |-> frag, st |-> ref, at |-> h[ref]]

----------------------------------------------------------------------------
(* Decoding bytes to characters. *)

Fail == [ok |-> FALSE, t |-> <<>>]
Ok(t) == [ok |-> TRUE, t |-> t]

RECURSIVE Utf16Units(_)
\* The 16-bit big-endian units of an even-length byte sequence, surrogate
\* pairs combined; "surrogatepass" lets a lone surrogate through.
Utf16Units(tt) ==
    IF tt = <<>> THEN <<>>
    ELSE LET u == 256 * tt[1] + tt[2]
             rest == SubSeq(tt, 3, Len(tt))
         IN  IF /\ 55296 <= u /\ u <= 56319 /\ Len(rest) >= 2
                /\ 56320 <= 256 * rest[1] + rest[2]
                /\ 256 * rest[1] + rest[2] <= 57343
             THEN << 65536 + (u - 55296) * 1024 + (256 * rest[1] + rest[2] - 56320) >>
                  \o Utf16Units(SubSeq(rest, 3, Len(rest)))
             ELSE <<u>> \o Utf16Units(rest)

\* bytes.decode(name, "surrogatepass")
decode(tt, name) ==
    CASE name = "charmap"   -> Ok(tt)      \* byte b is U+00b
      [] name = "utf-16-be" -> IF Len(tt) % 2 = 1 THEN Fail ELSE Ok(Utf16Units(tt))
      [] OTHER              -> Fail        \* LookupError: no such codec

\* bytes((x,)).decode(): UTF-8 of one byte
decode_byte(x) == IF x < 128 THEN Ok(<<x>>) ELSE Fail

decode_operand_no_retry(tt, cmap) ==
    LET enc == CharMaps[cmap].encoding IN
    IF enc.kind = "str"
    THEN decode(tt, enc.name)
    ELSE LET parts == [i \in 1..Len(tt) |->
                         IF tt[i] \in DOMAIN enc.table THEN Ok(enc.table[tt[i]])
                         ELSE decode_byte(tt[i])]
         IN  IF \A i \in 1..Len(tt) : parts[i].ok
             THEN Ok(Concat([i \in 1..Len(tt) |-> parts[i].t]))
             ELSE Fail

\* handle_tj, lines 280-294: the operand's bytes as a str, or a failure.
decode_operand(tt, cmap) ==
    LET enc == CharMaps[cmap].encoding IN
    IF enc.kind = "str"
    THEN LET first == decode(tt, enc.name) IN
         IF first.ok THEN first
         ELSE decode(tt, IF enc.name = "charmap" THEN "utf-16-be" ELSE "charmap")
    ELSE LET parts == [i \in 1..Len(tt) |->
                         IF tt[i] \in DOMAIN enc.table THEN Ok(enc.table[tt[i]])
                         ELSE decode_byte(tt[i])]
         IN  IF \A i \in 1..Len(tt) : parts[i].ok
             THEN Ok(Concat([i \in 1..Len(tt) |-> parts[i].t]))
             ELSE Fail

\* handle_tj, line 296: each decoded character, substituted through map_dict.
substitute(t, cmap) ==
    LET map_dict == CharMaps[cmap].map_dict IN
    [i \in 1..Len(t) |-> IF t[i] \in DOMAIN map_dict THEN map_dict[t[i]] ELSE <<t[i]>>]

----------------------------------------------------------------------------
(* Bidi classification of one unit, handle_tj lines 298-327. *)

code_point(x) == IF Len(x) = 1 THEN x[1] ELSE 1

InList(xx, list) == \E i \in 1..Len(list) : list[i] = xx

keeps_order_built_in_only(xx) ==
    \/ xx <= 47
    \/ 58 <= xx /\ xx <= 64
    \/ 8192 <= xx /\ xx <= 8303
    \/ 8352 <= xx /\ xx <= 8703

keeps_order(xx) ==
    \/ xx <= 47
    \/ 58 <= xx /\ xx <= 64
    \/ 8192 <= xx /\ xx <= 8303
    \/ 8352 <= xx /\ xx <= 8703
    \/ InList(xx, CUSTOM_RTL_SPECIAL_CHARS)

right_to_left_no_hebrew(xx) ==
    \/ 64285 <= xx /\ xx <= 65023
    \/ 65136 <= xx /\ xx <= 65279
    \/ CUSTOM_RTL_MIN <= xx /\ xx <= CUSTOM_RTL_MAX

right_to_left_built_in_only(xx) ==
    \/ 1424 <= xx /\ xx <= 2303
    \/ 64285 <= xx /\ xx <= 65023
    \/ 65136 <= xx /\ xx <= 65279

right_to_left(xx) ==
    \/ 1424 <= xx /\ xx <= 2303
    \/ 64285 <= xx /\ xx <= 65023
    \/ 65136 <= xx /\ xx <= 65279
    \/ CUSTOM_RTL_MIN <= xx /\ xx <= CUSTOM_RTL_MAX

direction(x) ==
    IF keeps_order(code_point(x)) THEN "neutral"
    ELSE IF right_to_left(code_point(x)) THEN "rtl"
    ELSE "ltr"

----------------------------------------------------------------------------
(* The inputs of the model. *)

FontSizes == {-1, 1}         \* st.font_size, as the Tf operator gives it
CmMatrices == {Identity, <<2, 0, 0, 2, 0, 0>>}   \* st.cm_matrix, as the cm operator gives it
SpaceWidths == {200}         \* st._space_width, in font units
AcceptedSets == {{0, 90, 180, 270}, {0}}
Visitors == {"none", "record", "raise"}

Rotations ==
    [ r \in {0, 90, 180, 270} |->
        CASE r = 0   -> <<1, 0, 0, 1>>
          [] r = 90  -> <<0, 1, -1, 0>>
          [] r = 180 -> <<-1, 0, 0, -1>>
          [] r = 270 -> <<0, -1, 1, 0>> ]

\* Where a positioning operator puts the text: <<a, c>> is a steps along the
\* axis on which the lines advance and c steps along the axis of the line.
Places == {<<0, 0>>, <<-1, 0>>, <<1, 0>>, <<0, 3>>, <<0, 4>>}

Offset(r, p) == IF r \in {0, 180} THEN <<p[2], p[1]>> ELSE <<p[1], p[2]>>

\* The text matrices the positioning operators set.
TextMatrices == { Rotations[r] \o Offset(r, p) : r \in DOMAIN Rotations, p \in Places }

None == [kind |-> "None", v |-> <<>>]
IntArg(n) == [kind |-> "int", v |-> <<n>>]
StrArg(s) == [kind |-> "str", v |-> s]
ListArg(l) == [kind |-> "list", v |-> l]

MinArgs == {None, IntArg(97)}
MaxArgs == {None, StrArg(<<122>>)}
SpecialsArgs == {None, ListArg(<<88, 89>>), StrArg(ALEF \o <<97>>)}

----------------------------------------------------------------------------
(* set_custom_rtl, lines 113-155. *)

ord(c) == c[1]

new_bound_reset(arg, old) ==
    CASE arg.kind = "int" -> arg.v[1]
      [] arg.kind = "str" -> ord(arg.v)
      [] OTHER            -> -1

new_bound(arg, old) ==
    CASE arg.kind = "int" -> arg.v[1]
      [] arg.kind = "str" -> ord(arg.v)
      [] OTHER            -> old

new_specials(arg, old) ==
    CASE arg.kind = "str"  -> [i \in 1..Len(arg.v) |-> ord(<<arg.v[i]>>)]
      [] arg.kind = "list" -> arg.v
      [] OTHER             -> old

set_custom_rtl(a_min, a_max, specials) ==
    /\ calls < MaxCalls
    /\ CUSTOM_RTL_MIN' = new_bound(a_min, CUSTOM_RTL_MIN)
    /\ CUSTOM_RTL_MAX' = new_bound(a_max, CUSTOM_RTL_MAX)
    /\ CUSTOM_RTL_SPECIAL_CHARS' = new_specials(specials, CUSTOM_RTL_SPECIAL_CHARS)
    /\ last' = [ op |-> "set_custom_rtl", outcome |-> "return",
                 a_min |-> a_min, a_max |-> a_max, specials |-> specials,
                 before |-> <<CUSTOM_RTL_MIN, CUSTOM_RTL_MAX, CUSTOM_RTL_SPECIAL_CHARS>>,
                 ret |-> <<CUSTOM_RTL_MIN', CUSTOM_RTL_MAX', CUSTOM_RTL_SPECIAL_CHARS'>> ]
    /\ calls' = calls + 1
    /\ UNCHANGED <<heap, text, output, cmtm_prev, orientations, visitor_text, visits>>

----------------------------------------------------------------------------
(* crlf_space_check, lines 169-246. *)

\* push_text of crlf_space_check, lines 179-186.  The visitor may raise; the
\* statements after the call are then not executed.
crlf_push_text(text_, output_, h, visitor, vlog) ==
    LET out1 == output_ \o text_ \o NL IN
    IF visitor = "none"
    THEN [text |-> <<>>, output |-> out1, heap |-> h, visits |-> vlog, fault |-> FALSE]
    ELSE LET c == copy(h, 1)
             vlog1 == Append(vlog, Visit(c.heap, text_ \o NL, c.ref))
         IN  IF visitor = "raise"
             THEN [text |-> text_, output |-> out1, heap |-> c.heap, visits |-> vlog1,
                   fault |-> TRUE]
             ELSE [text |-> <<>>, output |-> out1, heap |-> c.heap, visits |-> vlog1,
                   fault |-> FALSE]

\* Lines 199 and 270: is the orientation one the caller accepts?
accepted_always(orientation, orients) == TRUE
accepted(orientation, orients) == orientation \in orients

\* One orientation's branch of lines 202-241: `back` is the test of the
\* advance-axis delta against 0.8*f, adv and cross are the two deltas, sw is
\* st._space_width (space_width * 1000), buf is output + text.  The result
\* is what the branch does: "flush" (push_text), "space" (text += " "),
\* "none", or "fault" (IndexError on buf[-1]).
branch_raw_width(back, adv, cross, f, sw, buf) ==
    IF back
    THEN IF buf = <<>> THEN "fault"
         ELSE IF Last(buf) # NL[1] THEN "flush" ELSE "none"
    ELSE IF 10 * Abs(adv) < f * 3 /\ Abs(cross) > sw * f * 15
         THEN IF buf = <<>> THEN "fault"
              ELSE IF Last(buf) # SP[1] THEN "space" ELSE "none"
         ELSE "none"

branch(back, adv, cross, f, sw, buf) ==
    IF back
    THEN IF buf = <<>> THEN "fault"
         ELSE IF Last(buf) # NL[1] THEN "flush" ELSE "none"
    ELSE IF 10 * Abs(adv) < f * 3 /\ 1000 * Abs(cross) > sw * f * 15
         THEN IF buf = <<>> THEN "fault"
              ELSE IF Last(buf) # SP[1] THEN "space" ELSE "none"
         ELSE "none"

decision_180_as_0(orientation, delta_x, delta_y, f, sw, buf) ==
    CASE orientation = 0   -> branch(10 * delta_y < -8 * f, delta_y, delta_x, f, sw, buf)
      [] orientation = 180 -> branch(10 * delta_y < -8 * f, delta_y, delta_x, f, sw, buf)
      [] orientation = 90  -> branch(10 * delta_x > 8 * f, delta_x, delta_y, f, sw, buf)
      [] orientation = 270 -> branch(10 * delta_x < -8 * f, delta_x, delta_y, f, sw, buf)

decision(orientation, delta_x, delta_y, f, sw, buf) ==
    CASE orientation = 0   -> branch(10 * delta_y < -8 * f, delta_y, delta_x, f, sw, buf)
      [] orientation = 180 -> branch(10 * delta_y > 8 * f, delta_y, delta_x, f, sw, buf)
      [] orientation = 90  -> branch(10 * delta_x > 8 * f, delta_x, delta_y, f, sw, buf)
      [] orientation = 270 -> branch(10 * delta_x < -8 * f, delta_x, delta_y, f, sw, buf)

\* The whole function on its arguments; st is heap h's object 1.
crlf(text_, h, prev, orients, output_, visitor, vlog) ==
    LET st == h[1]
        m_prev == mult(prev[2], prev[1])
        m == mult(st.tm_matrix, st.cm_matrix)
        orientation == orient(m)
        delta_x == m[5] - m_prev[5]
        delta_y == m[6] - m_prev[6]
        k == Sqrt(Abs(m[1] * m[4]) + Abs(m[2] * m[3]))
        f == st.font_size * k
        todo == decision(orientation, delta_x, delta_y, f, st.raw_space_width,
                         output_ \o text_)
        pushed == crlf_push_text(text_, output_, h, visitor, vlog)
        same == [text |-> text_, output |-> output_, heap |-> h, visits |-> vlog]
        after == CASE todo = "flush" -> pushed
                   [] todo = "space" -> [same EXCEPT !.text = text_ \o SP]
                   [] OTHER          -> same
    IN  IF ~accepted(orientation, orients)
        THEN [ raised |-> TRUE, branch |-> "raise", text |-> text_, output |-> output_,
               cm_prev |-> prev[1], tm_prev |-> prev[2], heap |-> h, visits |-> vlog ]
        ELSE [ raised |-> FALSE,
               branch |-> IF todo = "flush" /\ pushed.fault THEN "flush-fault" ELSE todo,
               text |-> after.text, output |-> after.output,
               cm_prev |-> st.cm_matrix, tm_prev |-> st.tm_matrix,
               heap |-> after.heap, visits |-> after.visits ]

\* The caller's positioning operator has replaced st.tm_matrix by tm; the
\* caller then calls crlf_space_check and, when it returns, keeps what it
\* returns.
crlf_space_check(tm) ==
    /\ calls < MaxCalls
    /\ \E h \in {[heap EXCEPT ![1].tm_matrix = tm]} :
       \E r \in {crlf(text, h, cmtm_prev, orientations, output, visitor_text, visits)} :
           /\ heap' = r.heap
           /\ text' = r.text
           /\ output' = r.output
           /\ cmtm_prev' = <<r.cm_prev, r.tm_prev>>
           /\ visits' = r.visits
           /\ last' = [ op |-> "crlf_space_check",
                        outcome |-> IF r.raised THEN "OrientationNotFoundError"
                                    ELSE "return",
                        branch |-> r.branch, text_in |-> text, output_in |-> output,
                        prev_in |-> cmtm_prev, st_in |-> h[1], visits_in |-> visits ]
    /\ calls' = calls + 1
    /\ UNCHANGED <<CUSTOM_RTL_MIN, CUSTOM_RTL_MAX, CUSTOM_RTL_SPECIAL_CHARS,
                   orientations, visitor_text>>

----------------------------------------------------------------------------
(* handle_tj, lines 249-329. *)

\* What the show operators give handle_tj: the font's character map and the
\* operand list.  An operand is a str or a bytes value; `v` is its content.
NoOperand == [kind |-> "empty", v |-> <<>>]
StrOperand(s) == [kind |-> "str", v |-> s]
BytesOperand(b) == [kind |-> "bytes", v |-> b]

Shows ==
    { [cmap |-> "latin", operands |-> o] :
        o \in { BytesOperand(<<65>>), BytesOperand(<<65, 32>>), BytesOperand(<<65, 10>>),
                BytesOperand(<<208, 32>>), BytesOperand(<<65, 208, 66>>),
                BytesOperand(<<97, 208>>), StrOperand(ALEF), NoOperand } }
    \cup { [cmap |-> "utf16", operands |-> o] :
        o \in { BytesOperand(<<5, 208>>), BytesOperand(<<65>>) } }
    \cup { [cmap |-> "sparse", operands |-> o] :
        o \in { BytesOperand(<<65, 66>>), BytesOperand(<<208>>), BytesOperand(<<233>>) } }

tj_push_text_always_counts(s, processing_TJ_op, visitor) ==
    LET out1 == s.output \o s.text
        c == copy(s.heap, 1)
        called == IF visitor = "none" THEN s
                  ELSE [s EXCEPT !.heap = c.heap,
                                 !.visits = Append(s.visits, Visit(c.heap, s.text, c.ref))]
    IN  IF visitor = "raise"
        THEN [called EXCEPT !.output = out1, !.raised = TRUE]
        ELSE [called EXCEPT
                !.output = out1,
                !.heap[1].text_offset = @ + Len(s.text),
                !.text = <<>>]

\* push_text of handle_tj, lines 259-266, on handle_tj's locals s.  The
\* visitor may raise; the statements after the call are then not executed.
tj_push_text(s, processing_TJ_op, visitor) ==
    LET out1 == s.output \o s.text
        c == copy(s.heap, 1)
        called == IF visitor = "none" THEN s
                  ELSE [s EXCEPT !.heap = c.heap,
                                 !.visits = Append(s.visits, Visit(c.heap, s.text, c.ref))]
    IN  IF visitor = "raise"
        THEN [called EXCEPT !.output = out1, !.raised = TRUE]
        ELSE [called EXCEPT
                !.output = out1,
                !.heap[1].text_offset =
                    IF processing_TJ_op THEN @ + Len(s.text) ELSE @,
                !.text = <<>>]

\* Lines 318-320 and 324-326: the direction flag is set, then push_text runs.
flip(s, rtl, processing_TJ_op, visitor) ==
    tj_push_text([s EXCEPT !.heap[1].rtl_dir = rtl], processing_TJ_op, visitor)

\* One turn of the loop of lines 296-327 on the unit x.
tj_unit(s, x, processing_TJ_op, visitor) ==
    LET d == direction(x)
        rtl_dir == s.heap[1].rtl_dir
    IN  CASE d = "neutral" ->
               [s EXCEPT !.text = IF rtl_dir THEN x \o s.text ELSE s.text \o x]
          [] d = "rtl" ->
               LET s1 == IF ~rtl_dir THEN flip(s, TRUE, processing_TJ_op, visitor) ELSE s
               IN  IF s1.raised THEN s1 ELSE [s1 EXCEPT !.text = x \o s1.text]
          [] d = "ltr" ->
               LET s1 == IF rtl_dir THEN flip(s, FALSE, processing_TJ_op, visitor) ELSE s
               IN  IF s1.raised THEN s1 ELSE [s1 EXCEPT !.text = s1.text \o x]

\* What one turn of the loop did, for the record of the call.
Step(s, x, s1) ==
    [ x |-> x, dir |-> direction(x),
      text_before |-> s.text, rtl_before |-> s.heap[1].rtl_dir,
      offset_before |-> s.heap[1].text_offset,
      flushed |-> s1.output # s.output \/ Len(s1.visits) # Len(s.visits)
                  \/ s1.heap[1].rtl_dir # s.heap[1].rtl_dir,
      fragment |-> SubSeq(s1.output, Len(s.output) + 1, Len(s1.output)),
      visited |-> Len(s1.visits) - Len(s.visits),
      text_after |-> s1.text, rtl_after |-> s1.heap[1].rtl_dir,
      offset_after |-> s1.heap[1].text_offset, raised |-> s1.raised ]

RECURSIVE tj_loop(_, _, _, _)
tj_loop(s, units, processing_TJ_op, visitor) ==
    IF units = <<>> \/ s.raised THEN s
    ELSE LET s1 == tj_unit(s, Head(units), processing_TJ_op, visitor)
         IN  tj_loop([s1 EXCEPT !.steps = Append(@, Step(s, Head(units), s1))],
                     Tail(units), processing_TJ_op, visitor)

\* The whole function on its arguments; st is heap h's object 1.  outcome is
\* "return", or the exception that leaves the function.
tj(text_, operands, h, orients, output_, processing_TJ_op, visitor, vlog) ==
    LET st == h[1]
        m == mult(st.tm_matrix, st.cm_matrix)
        orientation == orient(m)
        s0 == [ text |-> text_, output |-> output_, heap |-> h, visits |-> vlog,
                steps |-> <<>>, raised |-> FALSE ]
        t == decode_operand(operands.v, st.cmap)
        done == tj_loop(s0, substitute(t.t, st.cmap), processing_TJ_op, visitor)
    IN  IF accepted(orientation, orients) /\ operands.kind # "empty"
        THEN IF operands.kind = "str"
             THEN [outcome |-> "return", path |-> "str", units |-> <<>>,
                   s |-> [s0 EXCEPT !.text = text_ \o operands.v]]
             ELSE IF ~t.ok
                  THEN [outcome |-> "UnicodeDecodeError", path |-> "bytes",
                        units |-> <<>>, s |-> s0]
                  ELSE [outcome |-> IF done.raised THEN "VisitorError" ELSE "return",
                        path |-> "bytes", units |-> substitute(t.t, st.cmap), s |-> done]
        ELSE [outcome |-> "return", path |-> "skip", units |-> <<>>, s |-> s0]

\* The caller's font operator has made show.cmap the character map of st;
\* the caller calls handle_tj on its text and output and, when it returns,
\* keeps the text it returns.  The output of handle_tj is its own local.
handle_tj(show, processing_TJ_op) ==
    /\ calls < MaxCalls
    /\ \E h \in {[heap EXCEPT ![1].cmap = show.cmap]} :
       \E r \in {tj(text, show.operands, h, orientations, output, processing_TJ_op,
                    visitor_text, visits)} :
           /\ heap' = r.s.heap
           /\ visits' = r.s.visits
           /\ text' = IF r.outcome = "return" THEN r.s.text ELSE text
           /\ last' = [ op |-> "handle_tj", outcome |-> r.outcome, path |-> r.path,
                        operands |-> show.operands, units |-> r.units,
                        processing_TJ_op |-> processing_TJ_op,
                        text_in |-> text, output_in |-> output, st_in |-> h[1],
                        visits_in |-> visits, steps |-> r.s.steps,
                        output_local |-> r.s.output ]
    /\ calls' = calls + 1
    /\ UNCHANGED <<CUSTOM_RTL_MIN, CUSTOM_RTL_MAX, CUSTOM_RTL_SPECIAL_CHARS, output,
                   cmtm_prev, orientations, visitor_text>>

----------------------------------------------------------------------------
(* The specification. *)

Init ==
    /\ CUSTOM_RTL_MIN = -1
    /\ CUSTOM_RTL_MAX = -1
    /\ CUSTOM_RTL_SPECIAL_CHARS = <<>>
    /\ \E cm \in CmMatrices, fs \in FontSizes, sw \in SpaceWidths :
          heap = << TextState(cm, Identity, "latin", fs, sw) >>
    /\ text = <<>>
    /\ output = <<>>
    /\ cmtm_prev = <<Identity, Identity>>
    /\ orientations \in AcceptedSets
    /\ visitor_text \in Visitors
    /\ visits = <<>>
    /\ last = [op |-> "none", outcome |-> "none"]
    /\ calls = 0

Next ==
    \/ \E a_min \in MinArgs, a_max \in MaxArgs, specials \in SpecialsArgs :
          set_custom_rtl(a_min, a_max, specials)
    \/ \E tm \in TextMatrices : crlf_space_check(tm)
    \/ \E show \in Shows, processing_TJ_op \in BOOLEAN : handle_tj(show, processing_TJ_op)

Spec == Init /\ [][Next]_vars

----------------------------------------------------------------------------
(* mult on its own: three matrices are drawn and composed both ways. *)

\* The linear parts: identity, quarter turn, scaling, shear, a singular
\* matrix, a reflection and two that commute with none of the others.
LinearParts ==
    { <<1, 0, 0, 1>>, <<0, 1, -1, 0>>, <<2, 0, 0, 2>>, <<1, 1, 0, 1>>,
      <<1, 0, 0, 0>>, <<-1, 0, 0, 1>>, <<1, 2, 3, 4>>, <<0, -1, 2, 0>> }

Translations == { <<0, 0>>, <<1, -2>>, <<3, 1>> }

Matrices == { l \o t : l \in LinearParts, t \in Translations }

InitMult ==
    /\ CUSTOM_RTL_MIN = -1
    /\ CUSTOM_RTL_MAX = -1
    /\ CUSTOM_RTL_SPECIAL_CHARS = <<>>
    /\ heap = << TextState(Identity, Identity, "latin", 1, 200) >>
    /\ text = <<>>
    /\ output = <<>>
    /\ cmtm_prev = <<Identity, Identity>>
    /\ orientations = {0, 90, 180, 270}
    /\ visitor_text = "none"
    /\ visits = <<>>
    /\ \E m \in Matrices, n \in Matrices, p \in Matrices :
          last = [op |-> "operands", outcome |-> "none", m |-> m, n |-> n, p |-> p]
    /\ calls = 0

\* The drawn matrices are composed: (m n) p, m (n p), and m with the identity
\* on either side.
compose ==
    /\ last.op = "operands"
    /\ last' = [ op |-> "mult", outcome |-> "return",
                 m |-> last.m, n |-> last.n, p |-> last.p,
                 left |-> mult(mult(last.m, last.n), last.p),
                 right |-> mult(last.m, mult(last.n, last.p)),
                 id_m |-> mult(Identity, last.m),
                 m_id |-> mult(last.m, Identity) ]
    /\ calls' = calls + 1
    /\ UNCHANGED <<CUSTOM_RTL_MIN, CUSTOM_RTL_MAX, CUSTOM_RTL_SPECIAL_CHARS, heap, text,
                   output, cmtm_prev, orientations, visitor_text, visits>>

NextMult == compose

SpecMult == InitMult /\ [][NextMult]_vars

----------------------------------------------------------------------------
(* What the claims speak of, read from the record of the last call. *)

IsCrlf == last.op = "crlf_space_check"
IsTj == last.op = "handle_tj"
IsSet == last.op = "set_custom_rtl"

\* The rotation the positioning operator gave the text matrix on entry.
EntryRotation ==
    CHOOSE r \in DOMAIN Rotations : SubSeq(last.st_in.tm_matrix, 1, 4) = Rotations[r]

\* Glyph height f = font_size * k and the deltas of the call, from its arguments.
EntryM == mult(last.st_in.tm_matrix, last.st_in.cm_matrix)
EntryPrevM == mult(last.prev_in[2], last.prev_in[1])
EntryF == last.st_in.font_size * Sqrt(Abs(EntryM[1] * EntryM[4]) + Abs(EntryM[2] * EntryM[3]))
EntryDeltaX == EntryM[5] - EntryPrevM[5]
EntryDeltaY == EntryM[6] - EntryPrevM[6]
EntryAdvance == IF EntryRotation \in {0, 180} THEN EntryDeltaY ELSE EntryDeltaX
EntryCross == IF EntryRotation \in {0, 180} THEN EntryDeltaX ELSE EntryDeltaY
EntryBuffer == last.output_in \o last.text_in

\* The advance-axis delta moves against the reading direction by more than 0.8*f.
MovesBack ==
    CASE EntryRotation = 0   -> 10 * EntryDeltaY < -8 * EntryF
      [] EntryRotation = 180 -> 10 * EntryDeltaY > 8 * EntryF
      [] EntryRotation = 90  -> 10 * EntryDeltaX > 8 * EntryF
      [] EntryRotation = 270 -> 10 * EntryDeltaX < -8 * EntryF

NearZeroAdvance == 10 * Abs(EntryAdvance) < 3 * EntryF

Unchanged == text = last.text_in /\ output = last.output_in /\ visits = last.visits_in

\* The custom configuration is the one of lines 13-15.
DefaultCustomRtl ==
    <<CUSTOM_RTL_MIN, CUSTOM_RTL_MAX, CUSTOM_RTL_SPECIAL_CHARS>> = <<-1, -1, <<>>>>

\* The fragments the last handle_tj flushed, in order.
RECURSIVE Fragments(_)
Fragments(steps) ==
    IF steps = <<>> THEN <<>>
    ELSE (IF Head(steps).flushed THEN <<Head(steps).fragment>> ELSE <<>>)
         \o Fragments(Tail(steps))

\* How often the character c occurs in the str s.
Count(s, c) == Cardinality({i \in 1..Len(s) : s[i] = c})

----------------------------------------------------------------------------
(* The claims. *)

\* C1: handle_tj processes the decoded units in order; a right-to-left unit met
\* with the flag left-to-right flushes the whole pending text (one visitor
\* call), flips the flag and is then put at the front of the pending text; a
\* left-to-right unit met with the flag right-to-left flushes, flips and is
\* appended; no other unit flushes.  "A", U+05D0, "B" from empty pending text
\* with the flag left-to-right (and the custom configuration as it is before
\* any set_custom_rtl) flushes "A", then U+05D0, and leaves "B".
C1_UnitsInOrder ==
    IsTj =>
      /\ \A i \in 1..Len(last.steps) :
           LET p == last.steps[i]
               flips == \/ p.dir = "rtl" /\ ~p.rtl_before
                        \/ p.dir = "ltr" /\ p.rtl_before
           IN  /\ p.x = last.units[i]
               /\ p.text_before = IF i = 1 THEN last.text_in
                                  ELSE last.steps[i - 1].text_after
               /\ p.flushed = flips
               /\ flips =>
                    /\ p.fragment = p.text_before
                    /\ p.visited = IF visitor_text = "none" THEN 0 ELSE 1
                    /\ p.rtl_after = ~p.rtl_before
                    /\ ~p.raised => p.text_after = p.x
               /\ ~flips =>
                    /\ p.fragment = <<>> /\ p.visited = 0
                    /\ p.rtl_after = p.rtl_before
                    /\ p.text_after =
                         IF p.dir = "rtl" \/ (p.dir = "neutral" /\ p.rtl_before)
                         THEN p.x \o p.text_before ELSE p.text_before \o p.x
      /\ ( /\ last.units = << <<65>>, ALEF, <<66>> >>
           /\ last.text_in = <<>> /\ ~last.st_in.rtl_dir
           /\ DefaultCustomRtl
           /\ last.outcome = "return" )
         => /\ Fragments(last.steps) = << <<65>>, ALEF >>
            /\ text = <<66>>
            /\ visitor_text = "record" =>
                 /\ Len(visits) = Len(last.visits_in) + 2
                 /\ visits[Len(visits) - 1].text = <<65>>
                 /\ visits[Len(visits)].text = ALEF

C1_Witness ==
    /\ IsTj /\ last.outcome = "return" /\ visitor_text = "record"
    /\ last.units = << <<65>>, ALEF, <<66>> >>
    /\ last.text_in = <<>> /\ ~last.st_in.rtl_dir
    /\ DefaultCustomRtl
    /\ Fragments(last.steps) = << <<65>>, ALEF >>
    /\ text = <<66>>

\* C2: after handle_tj returns, with no visitor, every character that was in
\* the pending text or came from the operand is in the caller's output or in
\* the returned pending text, once: none is lost, none is duplicated.
C2_NothingLost ==
    (IsTj /\ last.outcome = "return" /\ visitor_text = "none" /\ last.path # "skip") =>
      LET added == IF last.path = "str" THEN last.operands.v ELSE Concat(last.units)
          before == last.output_in \o last.text_in \o added
          after == output \o text
      IN  \A c \in {before[i] : i \in 1..Len(before)} \cup {after[i] : i \in 1..Len(after)} :
             Count(after, c) = Count(before, c)

\* C3: for an accepted orientation, when the advance-axis delta moves against
\* the reading direction by more than 0.8*f and output+text is non-empty and
\* does not end in a newline, crlf_space_check returns text = "" and output =
\* output + text + "\n", and a visitor that is supplied and returns receives
\* exactly one call, with text + "\n" and a snapshot of the text state; when
\* output+text ends in a newline nothing is flushed.
C3_LineBreak ==
    (IsCrlf /\ last.outcome = "return" /\ MovesBack /\ EntryBuffer # <<>>) =>
      IF Last(EntryBuffer) # NL[1]
      THEN /\ output = last.output_in \o last.text_in \o NL
           /\ visitor_text # "raise" => text = <<>>
           /\ visitor_text = "none" => visits = last.visits_in
           /\ visitor_text # "none" =>
                /\ Len(visits) = Len(last.visits_in) + 1
                /\ SubSeq(visits, 1, Len(last.visits_in)) = last.visits_in
                /\ Last(visits).text = last.text_in \o NL
                /\ Last(visits).at = last.st_in
                /\ Last(visits).st # 1
      ELSE Unchanged

C3_Witness ==
    /\ IsCrlf /\ last.outcome = "return" /\ MovesBack /\ visitor_text = "record"
    /\ EntryRotation = 180 /\ EntryF > 0
    /\ last.text_in # <<>> /\ text = <<>> /\ output = last.text_in \o NL
    /\ Len(visits) = 1

\* C4 as claimed: a cross-axis jump of absolute size >= 15 * space_width * f
\* with an advance-axis delta below 0.3*f in absolute value, and pending text
\* that does not end in a space, appends exactly one space to the pending
\* text and changes nothing else.
C4_SpaceAsClaimed ==
    ( /\ IsCrlf /\ last.outcome = "return"
      /\ NearZeroAdvance
      /\ 1000 * Abs(EntryCross) >= 15 * last.st_in.raw_space_width * EntryF
      /\ (last.text_in = <<>> \/ Last(last.text_in) # SP[1]) )
    => /\ text = last.text_in \o SP
       /\ output = last.output_in /\ visits = last.visits_in

\* C4 as amended: a cross-axis jump of absolute size > 15 * space_width * f
\* with an advance-axis delta below 0.3*f in absolute value, and output+text
\* that is not empty and does not end in a space, appends exactly one space
\* to the pending text and changes nothing else.
C4_Space ==
    ( /\ IsCrlf /\ last.outcome = "return"
      /\ NearZeroAdvance
      /\ 1000 * Abs(EntryCross) > 15 * last.st_in.raw_space_width * EntryF
      /\ EntryBuffer # <<>> /\ Last(EntryBuffer) # SP[1] )
    => /\ text = last.text_in \o SP
       /\ output = last.output_in /\ visits = last.visits_in
       /\ heap = <<last.st_in>> \o Tail(heap)

C4_Witness ==
    /\ IsCrlf /\ last.outcome = "return" /\ NearZeroAdvance
    /\ 1000 * Abs(EntryCross) > 15 * last.st_in.raw_space_width * EntryF
    /\ last.text_in # <<>> /\ text = last.text_in \o SP

\* C5: when the previous (transform, text matrix) pair equals the current one,
\* crlf_space_check returns text and output unchanged and calls no visitor,
\* for every font size and space width.
C5_ZeroDelta ==
    ( /\ IsCrlf
      /\ last.prev_in = <<last.st_in.cm_matrix, last.st_in.tm_matrix>> )
    => Unchanged

\* C6: crlf_space_check raises OrientationNotFoundError exactly when the
\* orientation of the composed matrix is not accepted, and then it has
\* changed nothing: no visitor call, text, output and text state as they were.
C6_OrientationNotFound ==
    IsCrlf =>
      /\ last.outcome = "OrientationNotFoundError" <=> EntryRotation \notin orientations
      /\ last.outcome = "OrientationNotFoundError" =>
           /\ Unchanged
           /\ cmtm_prev = last.prev_in
           /\ heap[1] = last.st_in
           /\ Len(heap) = 1 + Len(visits)

C6_Witness ==
    /\ IsCrlf /\ last.outcome = "OrientationNotFoundError"
    /\ EntryRotation = 270 /\ text # <<>>

\* C7: when the orientation is not accepted, handle_tj raises nothing,
\* returns the pending text it was given, calls no visitor and leaves the
\* direction flag and the running offset of the text state as they were.
C7_SilentSkip ==
    (IsTj /\ EntryRotation \notin orientations) =>
      /\ last.outcome = "return"
      /\ text = last.text_in
      /\ visits = last.visits_in
      /\ heap[1].rtl_dir = last.st_in.rtl_dir
      /\ heap[1].text_offset = last.st_in.text_offset

C7_Witness ==
    /\ IsTj /\ EntryRotation \notin orientations
    /\ last.operands = BytesOperand(<<65, 208, 66>>)
    /\ last.outcome = "return" /\ text = last.text_in

\* C8: a snapshot delivered to the visitor keeps, whatever handle_tj and
\* crlf_space_check do to the live text state afterwards, the value every
\* one of its fields had at delivery.
C8_SnapshotsKeep ==
    \A i \in 1..Len(visits) : heap[visits[i].st] = visits[i].at

C8_Witness ==
    \E i \in 1..Len(visits) :
        /\ heap[visits[i].st] = visits[i].at
        /\ visits[i].at.rtl_dir # heap[1].rtl_dir
        /\ visits[i].at.text_offset # heap[1].text_offset

\* C9: a fault inside the decision block of crlf_space_check, from the last
\* character of an empty output+text or from the visitor called in a flush,
\* is absorbed and the call is a no-op: it returns, with the text and the
\* output it was given.
C9_FaultIsNoOp ==
    (IsCrlf /\ last.branch \in {"fault", "flush-fault"}) =>
      /\ last.outcome = "return"
      /\ text = last.text_in
      /\ output = last.output_in

\* C10: set_custom_rtl changes only the values whose argument is supplied and
\* returns the stored triple; with all arguments omitted after (97, 122,
\* [88, 89]) it returns (97, 122, [88, 89]); before any call the triple is
\* (-1, -1, empty).
C10_OmittedKept ==
    LET stored == <<CUSTOM_RTL_MIN, CUSTOM_RTL_MAX, CUSTOM_RTL_SPECIAL_CHARS>> IN
    /\ calls = 0 => stored = <<-1, -1, <<>>>>
    /\ ~IsSet => stored = <<-1, -1, <<>>>> \/ calls > 1
    /\ IsSet =>
         /\ last.ret = stored
         /\ last.a_min = None => stored[1] = last.before[1]
         /\ last.a_max = None => stored[2] = last.before[2]
         /\ last.specials = None => stored[3] = last.before[3]
         /\ last.a_min = IntArg(97) => stored[1] = 97
         /\ last.a_max = StrArg(<<122>>) => stored[2] = 122
         /\ last.specials = ListArg(<<88, 89>>) => stored[3] = <<88, 89>>
         /\ last.specials = StrArg(ALEF \o <<97>>) => stored[3] = ALEF \o <<97>>
         /\ ( /\ last.before = <<97, 122, <<88, 89>>>>
              /\ last.a_min = None /\ last.a_max = None /\ last.specials = None )
            => last.ret = <<97, 122, <<88, 89>>>>

C10_Witness ==
    /\ IsSet
    /\ last.a_min = None /\ last.a_max = None /\ last.specials = None
    /\ last.before = <<97, 122, <<88, 89>>>>
    /\ last.ret = <<97, 122, <<88, 89>>>>

\* A unit the loop treated as right-to-left: met with the flag left-to-right
\* it flushed the whole pending text and flipped the flag; it was then put at
\* the front of the pending text.
TreatedRightToLeft(p) ==
    /\ p.rtl_after
    /\ p.flushed = ~p.rtl_before
    /\ ~p.rtl_before => p.fragment = p.text_before
    /\ ~p.raised => p.text_after = p.x \o (IF p.rtl_before THEN p.text_before ELSE <<>>)

\* A unit the loop treated as direction-neutral.
TreatedNeutral(p) ==
    /\ ~p.flushed /\ p.visited = 0 /\ p.fragment = <<>>
    /\ p.rtl_after = p.rtl_before
    /\ p.text_after = IF p.rtl_before THEN p.x \o p.text_before ELSE p.text_before \o p.x

InCustomRange(cp) == CUSTOM_RTL_MIN <= cp /\ cp <= CUSTOM_RTL_MAX

InBuiltInRtl(cp) ==
    \/ 1424 <= cp /\ cp <= 2303
    \/ 64285 <= cp /\ cp <= 65023
    \/ 65136 <= cp /\ cp <= 65279

InBuiltInNeutral(cp) ==
    \/ cp <= 47
    \/ 58 <= cp /\ cp <= 64
    \/ 8192 <= cp /\ cp <= 8303
    \/ 8352 <= cp /\ cp <= 8703

\* C11 as claimed: every single-character unit whose code point lies in the
\* stored range [CUSTOM_RTL_MIN, CUSTOM_RTL_MAX] is treated as right-to-left
\* by handle_tj; with the default range no code point is forced right-to-left.
C11_RangeForces ==
    IsTj =>
      \A i \in 1..Len(last.steps) :
         LET p == last.steps[i] IN
         /\ (Len(p.x) = 1 /\ InCustomRange(p.x[1])) => TreatedRightToLeft(p)
         /\ (CUSTOM_RTL_MIN = -1 /\ CUSTOM_RTL_MAX = -1 /\ p.dir = "rtl")
              => InBuiltInRtl(p.x[1])

\* C11, amended: every single-character unit whose code point lies in the
\* stored range and is not direction-neutral (not in a built-in neutral range
\* and not in the custom special set) is treated as right-to-left by
\* handle_tj; with the default range min = max = -1 a unit is right-to-left
\* only by a built-in range.
C11_RangeForcesUnlessNeutral ==
    IsTj =>
      \A i \in 1..Len(last.steps) :
         LET p == last.steps[i] IN
         /\ ( /\ Len(p.x) = 1 /\ InCustomRange(p.x[1])
              /\ ~InBuiltInNeutral(p.x[1])
              /\ ~InList(p.x[1], CUSTOM_RTL_SPECIAL_CHARS) )
            => TreatedRightToLeft(p)
         /\ (CUSTOM_RTL_MIN = -1 /\ CUSTOM_RTL_MAX = -1 /\ p.dir = "rtl")
              => InBuiltInRtl(p.x[1])

C11_Witness ==
    /\ IsTj /\ last.outcome = "return"
    /\ CUSTOM_RTL_MIN = 97 /\ CUSTOM_RTL_MAX = 122
    /\ ~last.st_in.rtl_dir
    /\ last.units = << <<97>>, ALEF >>
    /\ last.steps[1].flushed /\ last.steps[1].fragment = last.text_in
    /\ heap[1].rtl_dir
    /\ text = ALEF \o <<97>>

\* C12: a single-character unit whose code point is in the custom special set
\* is treated as direction-neutral by handle_tj, also when the code point is
\* in a built-in right-to-left range or in the custom range: it goes to the
\* front of the pending text when the flag is right-to-left and to the end
\* otherwise, and it causes no flush and no flip.
C12_SpecialsNeutral ==
    IsTj =>
      \A i \in 1..Len(last.steps) :
         LET p == last.steps[i] IN
         (Len(p.x) = 1 /\ InList(p.x[1], CUSTOM_RTL_SPECIAL_CHARS)) => TreatedNeutral(p)

C12_Witness ==
    /\ IsTj /\ last.outcome = "return"
    /\ CUSTOM_RTL_MIN = 97 /\ CUSTOM_RTL_MAX = 122
    /\ CUSTOM_RTL_SPECIAL_CHARS = ALEF \o <<97>>
    /\ last.units = << <<97>>, ALEF >>
    /\ ~last.st_in.rtl_dir /\ ~heap[1].rtl_dir
    /\ Fragments(last.steps) = <<>>
    /\ text = last.text_in \o <<97>> \o ALEF

\* The character a byte stands for under the dict encoding of the character
\* map in use: its table entry, or the byte itself when it is an ASCII byte
\* the table does not have.
SparseChar(b) ==
    LET table == CharMaps[last.st_in.cmap].encoding.table IN
    IF b \in DOMAIN table THEN table[b] ELSE <<b>>

\* The last handle_tj decoded a bytes operand through a dict encoding with an
\* identity substitution table.
SparseIdentityCall ==
    /\ IsTj /\ last.path = "bytes"
    /\ CharMaps[last.st_in.cmap].encoding.kind = "dict"
    /\ DOMAIN CharMaps[last.st_in.cmap].map_dict = {}

\* C13: a bytes operand whose bytes stand for left-to-right characters only,
\* decoded through a dict encoding with an identity substitution table and
\* met with the flag left-to-right: handle_tj returns the pending text it was
\* given followed by the operand's characters in their order, flushes
\* nothing, calls no visitor and leaves the flag left-to-right after every
\* character.
C13_SparseLtrInOrder ==
    ( /\ SparseIdentityCall
      /\ ~last.st_in.rtl_dir
      /\ \A i \in 1..Len(last.operands.v) :
            /\ last.operands.v[i] \in DOMAIN CharMaps[last.st_in.cmap].encoding.table
               \/ last.operands.v[i] < 128
            /\ Len(SparseChar(last.operands.v[i])) = 1
            /\ ~InBuiltInNeutral(SparseChar(last.operands.v[i])[1])
            /\ ~InList(SparseChar(last.operands.v[i])[1], CUSTOM_RTL_SPECIAL_CHARS)
            /\ ~InBuiltInRtl(SparseChar(last.operands.v[i])[1])
            /\ ~InCustomRange(SparseChar(last.operands.v[i])[1]) )
    => /\ last.outcome = "return"
       /\ text = last.text_in
                 \o [i \in 1..Len(last.operands.v) |-> SparseChar(last.operands.v[i])[1]]
       /\ Len(last.steps) = Len(last.operands.v)
       /\ \A i \in 1..Len(last.steps) :
             ~last.steps[i].flushed /\ ~last.steps[i].rtl_after
       /\ visits = last.visits_in
       /\ ~heap[1].rtl_dir

C13_Witness ==
    /\ SparseIdentityCall /\ last.outcome = "return"
    /\ last.operands = BytesOperand(<<65, 66>>)
    /\ ~last.st_in.rtl_dir /\ ~heap[1].rtl_dir
    /\ last.text_in # <<>>
    /\ text = last.text_in \o <<65, 66>>
    /\ Fragments(last.steps) = <<>>

\* The last handle_tj decoded a bytes operand under a named encoding.
NamedCall ==
    /\ IsTj /\ last.path = "bytes"
    /\ CharMaps[last.st_in.cmap].encoding.kind = "str"

Primary == CharMaps[last.st_in.cmap].encoding.name
Alternate == IF Primary = "charmap" THEN "utf-16-be" ELSE "charmap"

\* C14: with a named encoding, bytes that decode under the primary encoding
\* are decoded by it; bytes that fail under the primary and are valid under
\* the paired alternate (utf-16-be for charmap, charmap otherwise) are decoded
\* by the alternate and handle_tj raises no decode error; a decode error
\* leaves handle_tj only when the primary and the alternate both fail.
C14_Fallback ==
    NamedCall =>
      LET first == decode(last.operands.v, Primary)
          second == decode(last.operands.v, Alternate)
      IN  /\ first.ok =>
                /\ last.outcome # "UnicodeDecodeError"
                /\ last.units = substitute(first.t, last.st_in.cmap)
          /\ (~first.ok /\ second.ok) =>
                /\ last.outcome # "UnicodeDecodeError"
                /\ last.units = substitute(second.t, last.st_in.cmap)
          /\ last.outcome = "UnicodeDecodeError" => (~first.ok /\ ~second.ok)

C14_Witness ==
    /\ NamedCall /\ last.outcome = "return"
    /\ Primary = "utf-16-be" /\ Alternate = "charmap"
    /\ last.operands = BytesOperand(<<65>>)
    /\ ~decode(last.operands.v, Primary).ok
    /\ last.units = << <<102, 105>> >>
    /\ ~last.st_in.rtl_dir
    /\ text = last.text_in \o <<102, 105>>

\* C15: mult is associative, mult(mult(m, n), p) = mult(m, mult(n, p)) for
\* the integer matrices m, n, p drawn, and the identity matrix (1,0,0,1,0,0)
\* is a left and a right identity of mult.
C15_MultAssociative ==
    last.op = "mult" =>
      /\ last.left = last.right
      /\ last.id_m = last.m
      /\ last.m_id = last.m

C15_Witness ==
    /\ last.op = "mult"
    /\ last.m = <<1, 2, 3, 4, 1, -2>> /\ last.n = <<0, -1, 2, 0, 3, 1>>
    /\ last.p = <<1, 1, 0, 1, 1, -2>>
    /\ mult(last.m, last.n) # mult(last.n, last.m)
    /\ last.left = last.right
    /\ last.left # last.p
    /\ last.id_m = last.m /\ last.m_id = last.m

\* A character that the classification of lines 303-317 makes right-to-left.
IsRtlChar(c) ==
    /\ ~InBuiltInNeutral(c) /\ ~InList(c, CUSTOM_RTL_SPECIAL_CHARS)
    /\ InBuiltInRtl(c) \/ InCustomRange(c)

\* C16: a str operand goes through the same bidi classification as a bytes
\* operand; in particular a str operand of right-to-left characters met with
\* the flag left-to-right flushes the pending text (one visitor call), flips
\* the flag to right-to-left and leaves the operand's characters, front
\* inserted, as the pending text.
C16_StrOperandClassified ==
    ( /\ IsTj /\ last.path = "str" /\ last.outcome = "return"
      /\ ~last.st_in.rtl_dir
      /\ last.operands.v # <<>>
      /\ \A i \in 1..Len(last.operands.v) : IsRtlChar(last.operands.v[i]) )
    => /\ heap[1].rtl_dir
       /\ last.output_local = last.output_in \o last.text_in
       /\ text = [i \in 1..Len(last.operands.v) |->
                    last.operands.v[Len(last.operands.v) + 1 - i]]
       /\ visitor_text = "record" => Len(visits) = Len(last.visits_in) + 1

\* The visitor call made in turn i of the last handle_tj's loop.
VisitOfStep(i) ==
    visits[Len(last.visits_in)
           + Cardinality({j \in 1..i : last.steps[j].visited = 1})]

\* The total length of the fragments flushed in the first k turns.
RECURSIVE FlushedLength(_)
FlushedLength(k) ==
    IF k = 0 THEN 0
    ELSE FlushedLength(k - 1)
         + (IF last.steps[k].flushed THEN Len(last.steps[k].fragment) ELSE 0)

\* C17: on a direction flip the pending text is flushed, with its visitor
\* call, before the flag is flipped: the snapshot delivered with a flushed
\* fragment carries the direction flag under which the fragment was
\* accumulated.
C17_FlushBeforeFlip ==
    (IsTj /\ visitor_text # "none") =>
      \A i \in 1..Len(last.steps) :
         last.steps[i].visited = 1 =>
            /\ VisitOfStep(i).text = last.steps[i].text_before
            /\ VisitOfStep(i).at.rtl_dir = last.steps[i].rtl_before

\* C18: the running offset changes only through flushes made while
\* processing an array-form show operator: when handle_tj returns, text_offset
\* is its value on entry plus the lengths of the fragments flushed in the
\* call if processing_TJ_op, and its value on entry otherwise; the snapshot
\* delivered with a fragment shows the offset before that fragment's length
\* is added; crlf_space_check leaves the offset as it was.
C18_OffsetByFlushes ==
    /\ (IsTj /\ last.outcome = "return") =>
         /\ heap[1].text_offset =
               last.st_in.text_offset
               + (IF last.processing_TJ_op THEN FlushedLength(Len(last.steps)) ELSE 0)
         /\ \A i \in 1..Len(last.steps) :
               /\ last.steps[i].offset_before =
                     last.st_in.text_offset
                     + (IF last.processing_TJ_op THEN FlushedLength(i - 1) ELSE 0)
               /\ (visitor_text # "none" /\ last.steps[i].visited = 1) =>
                     VisitOfStep(i).at.text_offset = last.steps[i].offset_before
    /\ (IsTj /\ last.outcome # "return") =>
         heap[1].text_offset = last.st_in.text_offset
    /\ IsCrlf => heap[1].text_offset = last.st_in.text_offset

C18_Witness ==
    /\ IsTj /\ last.outcome = "return" /\ visitor_text = "record"
    /\ last.processing_TJ_op
    /\ last.units = << <<65>>, ALEF, <<66>> >>
    /\ Fragments(last.steps) = << <<65>>, ALEF >>
    /\ heap[1].text_offset = last.st_in.text_offset + 2
    /\ visits[Len(visits)].text = ALEF
    /\ visits[Len(visits)].at.text_offset = last.st_in.text_offset + 1
    /\ visits[Len(visits) - 1].at.text_offset = last.st_in.text_offset

\* C19: under a dict encoding handle_tj decodes the operand byte by byte and
\* every byte value yields a character without raising: a byte of the table
\* gives its table entry, any other byte its own single-byte decode.
C19_SparseNeverRaises ==
    ( /\ IsTj /\ last.path = "bytes"
      /\ CharMaps[last.st_in.cmap].encoding.kind = "dict"
      /\ \A i \in 1..Len(last.operands.v) : last.operands.v[i] \in 0..255 )
    => /\ last.outcome # "UnicodeDecodeError"
       /\ Len(last.units) = Len(last.operands.v)
       /\ \A i \in 1..Len(last.operands.v) :
             last.operands.v[i] \in DOMAIN CharMaps[last.st_in.cmap].encoding.table
                => last.units[i] = SparseChar(last.operands.v[i])

\* C20: a space inferred by crlf_space_check lies in the pending text where
\* handle_tj would put a neutral space decoded at that point: at the front
\* when the direction flag is right-to-left, so that it separates the
\* characters already placed from those the next placement adds at the
\* front, and at the end when the flag is left-to-right.
C20_SpaceInReadingOrder ==
    (IsCrlf /\ last.outcome = "return" /\ last.branch = "space") =>
      text = IF last.st_in.rtl_dir THEN SP \o last.text_in ELSE last.text_in \o SP

====
